---- MODULE Spec2Model ----
(***************************************************************************)
(* Model of github-process-manager: word_generator.py (section parser,     *)
(* document assembler, report store), the request handlers of app.py for   *)
(* reports, prompts and uploads, the prompt attributes of config.py, the   *)
(* prompt builder of gemini_client.py and the repository connection of     *)
(* github_client.py.                                                       *)
(*                                                                         *)
(* Text is modelled as a sequence of lexemes.  A lexeme is a maximal piece *)
(* of text that the regular expressions of parse_analysis_sections tell    *)
(* apart: a numeral with its dot ("2."), a label word ("Risks"), a label   *)
(* continuation with its leading blank (" Addressed"), one whitespace      *)
(* character (" " or "\n"), a colon, or any other text ("x").  Matching is *)
(* case-insensitive in the source (re.IGNORECASE); a lexeme stands for all *)
(* its spellings.                                                          *)
(***************************************************************************)
EXTENDS Integers, Sequences, FiniteSets, TLC

VARIABLES
    analysis_text,  \* the input of parse_analysis_sections
    doc,            \* the paragraphs added to the document, in order
    sections,       \* the dict it returns (NoResult before the call)
    process_name,   \* the subject name given to create_process_document
    now,            \* datetime.now(), in clock ticks
    filename,       \* the filename computed at word_generator.py:210
    calls,          \* the filename computations made so far in this process
    dir_exists,     \* whether the directory generated_reports exists
    writable,       \* whether the working directory accepts new entries
    files,          \* the entries of generated_reports: name -> file record
    result,         \* what the last operation gave back to its caller
    dir_order,      \* the order in which os.listdir yields the entries
    scan,           \* the call of list_generated_reports in progress
    sweep,          \* the call of cleanup_old_reports in progress
    Config,         \* the class attributes of Config that requests assign
    gemini_client,  \* the module-level GeminiClient of app.py
    github_client,  \* the attributes of the module-level GitHubClient
    upload_folder,  \* the names of the files under Config.UPLOAD_FOLDER
    requests,       \* the requests being served, each with its locals
    pc              \* position of the program

vars == <<analysis_text, sections, doc, process_name, now, filename, calls,
          dir_exists, writable, files, result, dir_order, scan, sweep,
          Config, gemini_client, github_client, upload_folder, requests, pc>>

parseVars  == <<analysis_text, sections, doc>>
nameVars   == <<process_name, now, filename, calls>>
storeVars  == <<dir_exists, writable, files, result, dir_order, scan, sweep>>
appVars    == <<Config, gemini_client, github_client, upload_folder, requests>>

-----------------------------------------------------------------------------
(* Bounds of the model *)

MaxChunks == 3      \* pieces an arbitrary input text is put together from
MaxContent == 2     \* lexemes of the varied section of a five-marker input
MaxNameLen == 4     \* characters of a subject name
MaxCallNameLen == 2 \* characters of a subject name when two calls are compared
MaxCalls == 2       \* filename computations compared with each other
MaxTime == 3        \* last clock tick
TicksPerSecond == 2 \* clock ticks in one second of the timestamp
MaxFiles == 3       \* entries present in generated_reports at start
MaxAge == 2         \* ticks before start at which an entry was last modified
MaxHours == 1       \* largest age limit, in hours, given to cleanup_old_reports
MaxBody == 3        \* lexemes in the content of the section that is varied
MaxSepLen == 3      \* characters between the two words of a subject name
MaxClients == 2     \* GeminiClient objects built after the one of start-up
MaxQueryLen == 1    \* words of a chat query
MaxRequests == 2    \* report requests served at the same time
MaxUrlLen == 3      \* characters of a repository URL
MaxAdded == 2       \* chunks that indexing one document adds

NoResult == "none"

\* What an operation gives back to its caller: whether it returned or raised,
\* the error, the HTTP status (0 outside a request) and the value.
Outcome(op, outcome, error, status, value) ==
    [op |-> op, outcome |-> outcome, error |-> error, status |-> status,
     value |-> value]

NoOutcome == Outcome("none", "none", "none", 0, NoResult)

\* No call of list_generated_reports is in progress.  snapshot: what
\* os.listdir gave; next: the entry the loop looks at; files: the list built.
IdleScan == [pc |-> "idle", snapshot |-> <<>>, next |-> 1, files |-> <<>>]

\* No call of cleanup_old_reports is in progress.  removed: the entries the
\* last call has removed, with the time each was last modified (kept for the
\* statements about what a call removes).
IdleSweep == [pc |-> "idle", snapshot |-> <<>>, next |-> 1, hours |-> 0,
              cutoff_time |-> 0, deleted_count |-> 0, removed |-> {}]

-----------------------------------------------------------------------------
(* Sequences *)

Min(S) == CHOOSE m \in S : \A k \in S : m <= k

RECURSIVE Concat(_)
Concat(ss) == IF ss = <<>> THEN <<>> ELSE Head(ss) \o Concat(Tail(ss))

SeqsUpTo(S, n) == UNION {[1..k -> S] : k \in 0..n}

-----------------------------------------------------------------------------
(* parse_analysis_sections: the regular expressions                        *)

Whitespace == {" ", "\n", "\t"}                      \* \s
ColonOrSpace == Whitespace \cup {":"}                \* [:\s]

section_keys == <<"Control Objective", "Risks Addressed", "Testing Procedures",
                  "Test Results and Findings", "Conclusion and Recommendation">>

SectionNames == {section_keys[n] : n \in 1..5}

\* word_generator.py:40-46.  num, labels: the marker N\.\s*(?:label|label);
\* stops: the alternatives of the lookahead other than $ (numeral, \s*, word).
patterns == <<
    [num |-> "1.", labels |-> << <<"Control Objective">> >>,
     stops |-> << <<"2.", "Risks">> >>,
     name |-> "Control Objective"],
    [num |-> "2.", labels |-> << <<"Risks", " Addressed">> >>,
     stops |-> << <<"3.", "Testing">> >>,
     name |-> "Risks Addressed"],
    [num |-> "3.", labels |-> << <<"Testing", " Procedures">> >>,
     stops |-> << <<"4.", "Test Results">>, <<"4.", "Results">> >>,
     name |-> "Testing Procedures"],
    [num |-> "4.", labels |-> << <<"Test Results", " and Findings">>, <<"Results">> >>,
     stops |-> << <<"5.", "Conclusion">> >>,
     name |-> "Test Results and Findings"],
    [num |-> "5.", labels |-> << <<"Conclusion", " and Recommendation">>, <<"Conclusion">> >>,
     stops |-> << >>,
     name |-> "Conclusion and Recommendation"] >>

\* Greedy X*: the first position from i on that holds no lexeme of S.
SkipWhile(text, i, S) ==
    Min({j \in i..(Len(text) + 1) : j = Len(text) + 1 \/ text[j] \notin S})

\* The literal lits stands in text at position i.
LitAt(text, i, lits) ==
    /\ i + Len(lits) - 1 <= Len(text)
    /\ \A k \in 1..Len(lits) : text[i + k - 1] = lits[k]

\* N\.\s*(?:label1|label2) tried at position i: the position after the
\* label (the first alternative that fits), 0 when the marker is not there.
MarkerEnd(p, text, i) ==
    IF i <= Len(text) /\ text[i] = p.num
    THEN LET j == SkipWhile(text, i + 1, Whitespace)
             alts == {a \in 1..Len(p.labels) : LitAt(text, j, p.labels[a])}
         IN  IF alts = {} THEN 0 ELSE j + Len(p.labels[Min(alts)])
    ELSE 0

\* The lookahead (?=stop1|stop2|$) holds at position q.  ($ also holds
\* before a final newline; the capture is stripped, so it makes no
\* difference.)
StopAt(p, text, q) ==
    \/ q = Len(text) + 1
    \/ \E s \in 1..Len(p.stops) :
          /\ text[q] = p.stops[s][1]
          /\ LitAt(text, SkipWhile(text, q + 1, Whitespace), <<p.stops[s][2]>>)

\* re.search(pattern, analysis_text, re.DOTALL | re.IGNORECASE): the
\* leftmost match; group 1 is the lazy (.*?) after the greedy [:\s]*.
re_search(p, text) ==
    LET starts == {i \in 1..Len(text) : MarkerEnd(p, text, i) # 0}
    IN  IF starts = {} THEN [matched |-> FALSE, start |-> 0, group |-> <<>>]
        ELSE LET i0 == Min(starts)
                 b  == SkipWhile(text, MarkerEnd(p, text, i0), ColonOrSpace)
                 q0 == Min({q \in b..(Len(text) + 1) : StopAt(p, text, q)})
             IN  [matched |-> TRUE, start |-> i0, group |-> SubSeq(text, b, q0 - 1)]

\* str.strip()
strip(s) ==
    LET keep == {i \in 1..Len(s) : s[i] \notin Whitespace}
    IN  IF keep = {} THEN <<>>
        ELSE SubSeq(s, Min(keep), CHOOSE m \in keep : \A k \in keep : k <= m)

\* word_generator.py:48-51, rules n..5 applied in order to the dict secs.
RECURSIVE ApplyRules(_, _, _)
ApplyRules(secs, text, n) ==
    IF n > Len(patterns) THEN secs
    ELSE LET m == re_search(patterns[n], text)
         IN  ApplyRules(IF m.matched
                        THEN [secs EXCEPT ![patterns[n].name] = strip(m.group)]
                        ELSE secs,
                        text, n + 1)

\* any(sections.values()): some value is a non-empty string
any_value(secs) == \E k \in DOMAIN secs : secs[k] # <<>>

\* Variants of the fallback, each a slip the assignment at line 55 could make.
Fallback_stripped(secs, text) ==
    IF ~ any_value(secs)
    THEN [secs EXCEPT !["Control Objective"] = strip(text)]
    ELSE secs

Fallback_new_key(secs, text) ==
    IF ~ any_value(secs)
    THEN [k \in DOMAIN secs \cup {"Analysis"} |->
              IF k = "Analysis" THEN text ELSE secs[k]]
    ELSE secs

Fallback_last_section(secs, text) ==
    IF ~ any_value(secs)
    THEN [secs EXCEPT !["Conclusion and Recommendation"] = text]
    ELSE secs

Fallback_placeholder(secs, text) ==
    IF ~ any_value(secs)
    THEN [secs EXCEPT !["Control Objective"] =
              IF text = <<>> THEN <<"x">> ELSE text]
    ELSE secs

\* word_generator.py:53-55
Fallback(secs, text) ==
    IF ~ any_value(secs)
    THEN [secs EXCEPT !["Control Objective"] = text]
    ELSE secs

parse_analysis_sections(text) ==
    Fallback(ApplyRules([k \in SectionNames |-> <<>>], text, 1), text)

\* word_generator.py:154-155: the content the assembler renders for a
\* section; when it is empty the placeholder paragraph is rendered instead.
section_content(secs, section_key) ==
    strip(IF section_key \in DOMAIN secs THEN secs[section_key] ELSE <<>>)

-----------------------------------------------------------------------------
(* Input texts *)

Lexemes == {"1.", "2.", "3.", "4.", "5.",
            "Control Objective", "Risks", " Addressed", "Testing", " Procedures",
            "Test Results", " and Findings", "Results", "Conclusion",
            " and Recommendation", " ", "\n", ":", "x"}

\* Every way of spelling marker n without blanks between numeral and label.
MarkerSpellings(n) ==
    {<<patterns[n].num>> \o patterns[n].labels[a] : a \in 1..Len(patterns[n].labels)}

\* An arbitrary text is put together from single lexemes and whole markers.
Chunks == {<<l>> : l \in Lexemes} \cup UNION {MarkerSpellings(n) : n \in 1..5}

Texts == {Concat(cs) : cs \in SeqsUpTo(Chunks, MaxChunks)}

\* Rule n finds its marker somewhere in the text.
MarkerOccurs(n, text) == \E i \in 1..Len(text) : MarkerEnd(patterns[n], text, i) # 0

-----------------------------------------------------------------------------
(* Idle values of the parts a specification does not use *)

IdleParse == analysis_text = <<>> /\ sections = NoResult /\ doc = <<>>
IdleName  == process_name = <<>> /\ now = 0 /\ filename = NoResult /\ calls = <<>>
IdleStore ==
    /\ dir_exists = FALSE /\ writable = TRUE /\ files = <<>> /\ result = NoOutcome
    /\ dir_order = <<>> /\ scan = IdleScan /\ sweep = IdleSweep

\* config.py:50-57: the attributes of Config as the class body sets them when
\* the environment names none of them.
DefaultConfig ==
    [SYSTEM_PROMPT_TEMPLATE |-> "default", CUSTOM_SYSTEM_PROMPT |-> "",
     PROJECT_NAME |-> "GitHub Process Manager", COMPANY_NAME |-> "",
     BRAND_COLOR |-> "#4A90E2", DOCUMENT_LOGO_PATH |-> ""]

\* github_client.py:14-17: a GitHubClient built without a token.  The
\* repository that is no repository (None) is written as the empty name.
NoRepo == <<>>
NoGitHub == [github |-> NoResult, repo |-> NoRepo, repo_url |-> <<>>]

IdleApp ==
    /\ Config = DefaultConfig /\ gemini_client = 0 /\ github_client = NoGitHub
    /\ upload_folder = {} /\ requests = <<>>

-----------------------------------------------------------------------------
(* The parser applied to arbitrary texts *)

InitParse ==
    /\ IdleApp
    /\ analysis_text \in Texts
    /\ sections = NoResult /\ doc = <<>>
    /\ pc = "start"
    /\ IdleName /\ IdleStore

Parse ==
    /\ pc = "start"
    /\ sections' = parse_analysis_sections(analysis_text)
    /\ pc' = "parsed"
    /\ UNCHANGED <<appVars, analysis_text, doc, nameVars, storeVars>>

NextParse == Parse

SpecParse == InitParse /\ [][NextParse]_vars

-----------------------------------------------------------------------------
(* The parser applied to texts that carry the five markers in order *)

\* What follows a marker: nothing, or a colon and a blank.
Separators == {<<>>, <<":", " ">>}

\* Markers 1..5 in order, each followed by a separator, its content and a
\* newline; section n has the content c, the others the content "x".
FiveMarkerText(n, c, m4, m5, sep) ==
    LET marker(k) == IF k = 4 THEN m4
                     ELSE IF k = 5 THEN m5
                     ELSE CHOOSE m \in MarkerSpellings(k) : TRUE
        part(k) == marker(k) \o sep \o (IF k = n THEN c ELSE <<"x">>) \o <<"\n">>
    IN  part(1) \o part(2) \o part(3) \o part(4) \o part(5)

\* The positions at which rule n finds its marker.
MarkerStarts(n, text) == {i \in 1..Len(text) : MarkerEnd(patterns[n], text, i) # 0}

\* The trimmed text between marker n (with its colons and blanks) and
\* marker n+1, or the end of the text for n = 5.
Between(n, text) ==
    LET i == Min(MarkerStarts(n, text))
        b == SkipWhile(text, MarkerEnd(patterns[n], text, i), ColonOrSpace)
        e == IF n = 5 THEN Len(text) + 1 ELSE Min(MarkerStarts(n + 1, text))
    IN  strip(SubSeq(text, b, e - 1))

\* The five markers occur once each, in ascending order, with non-blank
\* text after each.
WellFormed(text) ==
    /\ \A n \in 1..5 : Cardinality(MarkerStarts(n, text)) = 1
    /\ \A n \in 1..4 : Min(MarkerStarts(n, text)) < Min(MarkerStarts(n + 1, text))
    /\ \A n \in 1..5 : Between(n, text) # <<>>

InitWellFormed ==
    /\ IdleApp
    /\ \E n \in 1..5, c \in SeqsUpTo(Lexemes, MaxContent),
          m4 \in MarkerSpellings(4), m5 \in MarkerSpellings(5), sep \in Separators :
          analysis_text = FiveMarkerText(n, c, m4, m5, sep)
    /\ WellFormed(analysis_text)
    /\ sections = NoResult /\ doc = <<>>
    /\ pc = "start"
    /\ IdleName /\ IdleStore

SpecWellFormed == InitWellFormed /\ [][NextParse]_vars

-----------------------------------------------------------------------------
(* Claims about parse_analysis_sections *)

NoMarkerOccurs(text) == \A n \in 1..5 : ~ MarkerOccurs(n, text)

\* Rule n matches and its trimmed capture is not empty.
Captures(n, text) ==
    LET m == re_search(patterns[n], text)
    IN  m.matched /\ strip(m.group) # <<>>

\* C1: fallback law.  For every input in which none of the five markers
\* occurs, the result holds the complete, unmodified input as the content of
\* 'Control Objective' and the empty string for the other four sections.
FallbackLaw ==
    (pc = "parsed" /\ NoMarkerOccurs(analysis_text)) =>
        /\ sections["Control Objective"] = analysis_text
        /\ \A n \in 2..5 : sections[section_keys[n]] = <<>>

\* An unmarked text with blanks around it has been parsed.
FallbackLawWitness ==
    /\ pc = "parsed"
    /\ NoMarkerOccurs(analysis_text)
    /\ Len(analysis_text) >= 3
    /\ analysis_text[1] \in Whitespace
    /\ analysis_text[Len(analysis_text)] \in Whitespace
    /\ strip(analysis_text) # <<>>
    /\ sections["Control Objective"] = analysis_text

\* C2: fallback only without markers.  For every input in which at least
\* one marker is matched the raw input is not assigned to the first section,
\* every section whose marker was not matched is empty, and all sections are
\* empty after the five rules exactly when no marker occurs in the input.
FallbackOnlyWithoutMarkers ==
    pc = "parsed" =>
        /\ (~ NoMarkerOccurs(analysis_text)) =>
               /\ sections["Control Objective"] # analysis_text
               /\ \A n \in 1..5 : ~ MarkerOccurs(n, analysis_text) =>
                                       sections[section_keys[n]] = <<>>
        /\ (~ any_value(ApplyRules([k \in SectionNames |-> <<>>], analysis_text, 1)))
               <=> NoMarkerOccurs(analysis_text)

\* C3: for every input with the five markers once each in ascending order
\* and non-blank text after each, all five sections are non-empty and
\* section n is exactly the trimmed text between marker n and marker n+1
\* (the end of the text for n = 5).
FiveMarkersBounded ==
    (pc = "parsed" /\ WellFormed(analysis_text)) =>
        \A n \in 1..5 :
            /\ sections[section_keys[n]] # <<>>
            /\ sections[section_keys[n]] = Between(n, analysis_text)

\* C4: the result has exactly the five schema keys, each mapped to a
\* (possibly empty) string.
SchemaKeysPresent ==
    pc = "parsed" =>
        /\ DOMAIN sections = SectionNames
        /\ \A k \in SectionNames : sections[k] \in Seq(Lexemes)

\* A parse in which the fallback assignment was made on a non-empty text.
SchemaKeysWitness ==
    /\ pc = "parsed"
    /\ analysis_text # <<>>
    /\ ~ any_value(ApplyRules([k \in SectionNames |-> <<>>], analysis_text, 1))
    /\ DOMAIN sections = SectionNames

\* C5 as stated: for every non-empty input, marked or unmarked, the first
\* section is populated after the parse, so the assembler renders content
\* and not the placeholder for section 1.
FirstSectionPopulated ==
    (pc = "parsed" /\ analysis_text # <<>>) =>
        section_content(sections, "Control Objective") # <<>>

\* C5 as amended: for every input with a non-whitespace character in which
\* marker 1 captures content or no marker captures content, the first
\* section is populated with non-blank text; when only later markers
\* capture content the first section is empty, and for a whitespace-only
\* input the assembler finds no content in it.
FirstSectionPopulatedUnlessLaterOnly ==
    pc = "parsed" =>
        IF strip(analysis_text) = <<>>
        THEN section_content(sections, "Control Objective") = <<>>
        ELSE IF Captures(1, analysis_text) \/ \A n \in 2..5 : ~ Captures(n, analysis_text)
        THEN section_content(sections, "Control Objective") # <<>>
        ELSE sections["Control Objective"] = <<>>

\* An unmarked text, led by a blank, went to the first section.
FirstSectionWitness ==
    /\ pc = "parsed"
    /\ NoMarkerOccurs(analysis_text)
    /\ Len(analysis_text) = 2
    /\ analysis_text[1] = "\n"
    /\ section_content(sections, "Control Objective") = <<analysis_text[2]>>

\* C6: for the empty input all five sections are empty.
EmptyInputAllEmpty ==
    (pc = "parsed" /\ analysis_text = <<>>) =>
        \A k \in SectionNames : sections[k] = <<>>

\* The empty text has been parsed.
EmptyInputWitness ==
    /\ pc = "parsed"
    /\ analysis_text = <<>>
    /\ DOMAIN sections = SectionNames

-----------------------------------------------------------------------------
(* create_process_document: the filename, word_generator.py:207-211        *)

\* The characters of a subject name, one of each kind the code tells apart:
\* a letter, a digit, underscore, hyphen, blank, another whitespace
\* character, and a character that is none of these (the path separator).
NameChars == {"a", "3", "_", "-", " ", "\t", "/"}

WordChars == {"a", "3", "_"}                          \* \w

Names(n) == SeqsUpTo(NameChars, n)

RECURSIVE Filter(_, _)
Filter(s, S) ==
    IF s = <<>> THEN <<>>
    ELSE (IF Head(s) \in S THEN <<Head(s)>> ELSE <<>>) \o Filter(Tail(s), S)

\* re.sub(r'[^\w\s-]', '', process_name): what is not \w, \s or '-' goes.
re_sub(name) == Filter(name, WordChars \cup Whitespace \cup {"-"})

\* A variant that turns a run of blanks into one underscore.
replace_collapsing(s) ==
    Concat([i \in 1..Len(s) |->
               IF s[i] # " " THEN <<s[i]>>
               ELSE IF i > 1 /\ s[i - 1] = " " THEN <<>> ELSE <<"_">>])

\* str.replace(' ', '_'): every blank becomes an underscore.
replace(s) == [i \in 1..Len(s) |-> IF s[i] = " " THEN "_" ELSE s[i]]

\* word_generator.py:209
safe_process_name(name) == replace(strip(re_sub(name)))

Digits == <<"0", "1", "2", "3", "4", "5", "6", "7", "8", "9">>

\* datetime.now().strftime('%Y%m%d_%H%M%S'), word_generator.py:208: the
\* clock reading cut to whole seconds, printed with a fixed number of digits.
strftime(t) ==
    LET s == t \div TicksPerSecond
    IN  <<Digits[((s \div 10) % 10) + 1], Digits[(s % 10) + 1]>>

\* word_generator.py:210
Filename(name, t) ==
    <<"Process_Analysis_">> \o safe_process_name(name) \o <<"_">>
        \o strftime(t) \o <<".docx">>

\* The filename expressions applied to one subject name.
InitSlug ==
    /\ IdleApp
    /\ process_name \in Names(MaxNameLen)
    /\ now \in 0..MaxTime
    /\ filename = NoResult
    /\ calls = <<>>
    /\ pc = "start"
    /\ IdleParse /\ IdleStore

GenerateFilename ==
    /\ pc = "start"
    /\ filename' = Filename(process_name, now)
    /\ pc' = "named"
    /\ UNCHANGED <<appVars, process_name, now, calls, parseVars, storeVars>>

NextSlug == GenerateFilename

SpecSlug == InitSlug /\ [][NextSlug]_vars

\* The filename expressions applied by several invocations in one process,
\* at the same or at later clock readings.
InitCalls ==
    /\ IdleApp
    /\ process_name = <<>>
    /\ now = 0
    /\ filename = NoResult
    /\ calls = <<>>
    /\ pc = "start"
    /\ IdleParse /\ IdleStore

GenerateFilenameCall ==
    /\ Len(calls) < MaxCalls
    /\ \E name \in Names(MaxCallNameLen) :
          /\ process_name' = name
          /\ filename' = Filename(name, now)
          /\ calls' = Append(calls, [process_name |-> name, now |-> now,
                                     filename |-> Filename(name, now)])
    /\ UNCHANGED <<appVars, now, pc, parseVars, storeVars>>

Tick ==
    /\ now < MaxTime
    /\ now' = now + 1
    /\ UNCHANGED <<appVars, process_name, filename, calls, pc, parseVars, storeVars>>

NextCalls == GenerateFilenameCall \/ Tick

SpecCalls == InitCalls /\ [][NextCalls]_vars

-----------------------------------------------------------------------------
(* The output directory generated_reports and the operations on it         *)

\* Names an entry of the directory can have at start.
FileUniverse == {<<"Process_Analysis_", "a", "_", "0", "0", ".docx">>,
                 <<"old", ".docx">>, <<"notes", ".txt">>}

\* An entry: its modification time and whether it is a complete document.
FileRecords(t) == [mtime : (t - MaxAge)..t, complete : {TRUE}]

\* The directories that can be there at start (clock reading t): at most
\* MaxFiles entries, last modified up to MaxAge ticks earlier.
Directories(t) ==
    UNION {[S -> FileRecords(t)] :
              S \in {S \in SUBSET FileUniverse : Cardinality(S) <= MaxFiles}}

\* The orders in which os.listdir can yield the entries S ("The list is in
\* arbitrary order"): every arrangement of S.
Listings(S) ==
    {p \in [1..Cardinality(S) -> S] : \A i, j \in 1..Cardinality(S) : i # j => p[i] # p[j]}

\* One of them.
ListingOf(S) == CHOOSE p \in Listings(S) : TRUE

\* Request bodies and arguments tried.
RequestTexts == {<<>>, <<"x">>}
RequestNames == {<<"a">>, <<"a", " ", "/", "a">>}

\* A variant of create_process_document that opens the output file before
\* the failing statement and leaves it behind.
create_process_document_partial(text, name) ==
    /\ analysis_text' = text
    /\ process_name' = name
    /\ IF ~ dir_exists /\ ~ writable
       THEN /\ result' = Outcome("create_process_document", "raised", "OSError", 0, NoResult)
            /\ UNCHANGED <<dir_exists, files, dir_order>>
       ELSE /\ dir_exists' = TRUE
            /\ files' = [f \in DOMAIN files \cup {Filename(name, now)} |->
                            IF f = Filename(name, now)
                            THEN [mtime |-> now, complete |-> FALSE]
                            ELSE files[f]]
            /\ dir_order' = IF Filename(name, now) \in DOMAIN files THEN dir_order
                            ELSE Append(dir_order, Filename(name, now))
            /\ result' = Outcome("create_process_document", "raised", "NameError", 0, NoResult)
    /\ UNCHANGED <<appVars, sections, doc, now, filename, calls, writable, scan, sweep, pc>>

\* create_process_document(analysis_text, process_name), word_generator.py:
\* 60-221.  os.makedirs (line 80) creates the directory or raises; the call
\* of parse_sox_sections (line 83) names a function that is defined nowhere,
\* so the statement raises NameError; the handler at lines 219-221 logs and
\* re-raises.  No later statement of the function is ever executed.
create_process_document(text, name) ==
    /\ analysis_text' = text
    /\ process_name' = name
    /\ IF ~ dir_exists /\ ~ writable
       THEN /\ result' = Outcome("create_process_document", "raised", "OSError", 0, NoResult)
            /\ UNCHANGED dir_exists
       ELSE /\ dir_exists' = TRUE
            /\ result' = Outcome("create_process_document", "raised", "NameError", 0, NoResult)
    /\ UNCHANGED <<appVars, sections, doc, now, filename, calls, writable, files, dir_order,
                   scan, sweep, pc>>

\* A direct call, as made by create_sox_word_document (lines 294-299).
CreateProcessDocument ==
    \E text \in RequestTexts, name \in RequestNames :
        create_process_document(text, name)

\* A variant of the handler without the test of analysis_text.
generate_word_report_unchecked(text, name) ==
    /\ analysis_text' = text
    /\ process_name' = name
    /\ result' = Outcome("generate_word_report", "returned", "TypeError", 500, NoResult)
    /\ UNCHANGED <<appVars, sections, doc, now, filename, calls, dir_exists, writable, files,
                   dir_order, scan, sweep, pc>>

\* POST /api/generate-word-report, app.py:497-569.  An empty or absent
\* analysis_text is answered with 400.  Otherwise create_process_document is
\* called with the keyword argument template_type (line 552), which the
\* function does not accept: the call raises TypeError before the body of
\* the function runs, and the handler answers 500 (lines 567-569).
generate_word_report(text, name) ==
    /\ analysis_text' = text
    /\ process_name' = name
    /\ result' = IF text = <<>>
                 THEN Outcome("generate_word_report", "returned", "No analysis text provided", 400, NoResult)
                 ELSE Outcome("generate_word_report", "returned", "TypeError", 500, NoResult)
    /\ UNCHANGED <<appVars, sections, doc, now, filename, calls, dir_exists, writable, files,
                   dir_order, scan, sweep, pc>>

\* The JSON objects tried as the body of the request: analysis_text may be
\* missing.
RequestBodies ==
    {[process_name |-> name] : name \in RequestNames}
        \cup {[analysis_text |-> text, process_name |-> name] :
                  text \in RequestTexts, name \in RequestNames}

\* dict.get(key, default), app.py:512-513
get(data, key, default) == IF key \in DOMAIN data THEN data[key] ELSE default

GenerateWordReport ==
    \E data \in RequestBodies :
        generate_word_report(get(data, "analysis_text", <<>>),
                             get(data, "process_name", <<"a">>))

InitReports ==
    /\ IdleApp
    /\ now = 0
    /\ dir_exists \in BOOLEAN
    /\ writable \in BOOLEAN
    /\ files \in IF dir_exists THEN Directories(now) ELSE {<<>>}
    /\ dir_order = ListingOf(DOMAIN files)
    /\ scan = IdleScan /\ sweep = IdleSweep
    /\ result = NoOutcome
    /\ analysis_text = <<>> /\ sections = NoResult /\ doc = <<>>
    /\ process_name = <<>> /\ filename = NoResult /\ calls = <<>>
    /\ pc = "serving"

NextReports == CreateProcessDocument \/ GenerateWordReport \/ Tick

SpecReports == InitReports /\ [][NextReports]_vars

-----------------------------------------------------------------------------
(* Claims about create_process_document and its callers *)

GenerateOps == {"create_process_document", "generate_word_report"}

\* The step is a generate-report operation that gave a new outcome.
GenerateStep == result' # result /\ result'.op \in GenerateOps

AllComplete(dir) == \A f \in DOMAIN dir : dir[f].complete

\* The characters a slug may hold: letters, digits, underscore, hyphen.
SlugChars == {"a", "3", "_", "-"}

\* C7: a generate-report operation with non-empty analysis text and a
\* writable output directory succeeds: it returns a bare filename, and
\* afterwards exactly one new file of that name exists in the output
\* directory while every file that existed before is unchanged; for the
\* direct call and for the /api/generate-word-report handler alike.
GenerateReportSucceeds ==
    [][(GenerateStep /\ analysis_text' # <<>> /\ writable) =>
          /\ result'.outcome = "returned"
          /\ result'.status \in {0, 200}
          /\ result'.value # NoResult
          /\ \A i \in 1..Len(result'.value) : result'.value[i] # "/"
          /\ result'.value \notin DOMAIN files
          /\ DOMAIN files' = DOMAIN files \cup {result'.value}
          /\ \A f \in DOMAIN files : files'[f] = files[f]]_vars

-----------------------------------------------------------------------------
(* The report store: list_generated_reports and cleanup_old_reports        *)

SecondsPerHour == 3600                               \* word_generator.py:274
TicksPerHour == SecondsPerHour * TicksPerSecond

\* How long before the start the entries of the directory were last written:
\* within the last ticks, and around each age limit that cleanup can be given.
StoreAges == (0..MaxAge) \cup {h * TicksPerHour + d : h \in 1..MaxHours, d \in 0..1}

\* A report of the directory; removable is whether os.remove succeeds on it
\* (a file held open or owned by someone else cannot be removed).
ReportRecords == [mtime : {0 - a : a \in StoreAges}, complete : {TRUE}, removable : BOOLEAN]

\* Any other entry: an old file, so that only its name saves it.
OtherRecords == [mtime : {0 - (MaxHours * TicksPerHour + 1)}, complete : {TRUE},
                 removable : {TRUE}]

\* str.endswith('.docx'), word_generator.py:238 and 277
endswith_accepting_any(name) == name # <<>>

endswith(name) == name # <<>> /\ name[Len(name)] = ".docx"

StoreDirectories ==
    UNION {{dir \in [S -> ReportRecords \cup OtherRecords] :
                \A name \in S : dir[name] \in (IF endswith(name) THEN ReportRecords
                                               ELSE OtherRecords)} :
              S \in {S \in SUBSET FileUniverse : Cardinality(S) <= MaxFiles}}

\* datetime.fromtimestamp(t).strftime('%Y-%m-%d %H:%M:%S'), word_generator.py
\* 244-245: the time cut to whole seconds and printed with a fixed number of
\* digits, so that the strings compare as the numbers of seconds do; the
\* number of seconds stands for the string.
fromtimestamp(t) == t \div TicksPerSecond

\* A variant of the descriptor that reports the age of the file.
descriptor_with_age(name) ==
    [filename |-> name, modified |-> fromtimestamp(now - files[name].mtime)]

\* word_generator.py:240-246: the dictionary appended for the entry name
\* (size and created are read from the same os.stat and are left out).
descriptor(name) ==
    [filename |-> name, modified |-> fromtimestamp(files[name].mtime)]

\* list.sort(key=lambda x: x['modified'], reverse=True), word_generator.py
\* 249: descending by the key; equal keys keep the order they came in.
RECURSIVE sort(_)
sort(fs) ==
    IF fs = <<>> THEN <<>>
    ELSE LET x == fs[Len(fs)]
             rest == sort(SubSeq(fs, 1, Len(fs) - 1))
             k == Cardinality({i \in 1..Len(rest) : rest[i].modified >= x.modified})
         IN  SubSeq(rest, 1, k) \o <<x>> \o SubSeq(rest, k + 1, Len(rest))

\* The directory without the entry name.
Without(dir, name) == [f \in DOMAIN dir \ {name} |-> dir[f]]

\* word_generator.py:231-237: the existence test and os.listdir.
list_begin ==
    /\ scan.pc = "idle"
    /\ IF ~ dir_exists
       THEN /\ result' = Outcome("list_generated_reports", "returned", "none", 0, <<>>)
            /\ UNCHANGED scan
       ELSE /\ scan' = [pc |-> "loop", snapshot |-> dir_order, next |-> 1, files |-> <<>>]
            /\ UNCHANGED result
    /\ UNCHANGED <<appVars, parseVars, nameVars, dir_exists, writable, files, dir_order, sweep, pc>>

\* word_generator.py:237-246 for one entry of the listing; os.stat raises for
\* an entry that is gone, and the handler at 252-254 returns [].
list_file ==
    /\ scan.pc = "loop"
    /\ scan.next <= Len(scan.snapshot)
    /\ LET name == scan.snapshot[scan.next]
       IN  IF ~ endswith(name)
           THEN /\ scan' = [scan EXCEPT !.next = @ + 1]
                /\ UNCHANGED result
           ELSE IF name \notin DOMAIN files
           THEN /\ result' = Outcome("list_generated_reports", "returned",
                                     "FileNotFoundError", 0, <<>>)
                /\ scan' = IdleScan
           ELSE /\ scan' = [scan EXCEPT !.next = @ + 1,
                                        !.files = Append(@, descriptor(name))]
                /\ UNCHANGED result
    /\ UNCHANGED <<appVars, parseVars, nameVars, dir_exists, writable, files, dir_order, sweep, pc>>

\* word_generator.py:248-250
list_return ==
    /\ scan.pc = "loop"
    /\ scan.next > Len(scan.snapshot)
    /\ result' = Outcome("list_generated_reports", "returned", "none", 0, sort(scan.files))
    /\ scan' = IdleScan
    /\ UNCHANGED <<appVars, parseVars, nameVars, dir_exists, writable, files, dir_order, sweep, pc>>

\* A variant that puts the cutoff after the clock reading.
cleanup_begin_ahead(hours) ==
    /\ sweep.pc = "idle"
    /\ IF ~ dir_exists
       THEN /\ result' = Outcome("cleanup_old_reports", "returned", "none", 0, 0)
            /\ sweep' = [IdleSweep EXCEPT !.hours = hours]
       ELSE /\ sweep' = [pc |-> "loop", snapshot |-> dir_order, next |-> 1,
                         hours |-> hours, cutoff_time |-> now + hours * TicksPerHour,
                         deleted_count |-> 0, removed |-> {}]
            /\ UNCHANGED result
    /\ UNCHANGED <<appVars, parseVars, nameVars, dir_exists, writable, files, dir_order, scan, pc>>

\* word_generator.py:267-276: the existence test, the cutoff and os.listdir.
cleanup_begin(hours) ==
    /\ sweep.pc = "idle"
    /\ IF ~ dir_exists
       THEN /\ result' = Outcome("cleanup_old_reports", "returned", "none", 0, 0)
            /\ sweep' = [IdleSweep EXCEPT !.hours = hours]
       ELSE /\ sweep' = [pc |-> "loop", snapshot |-> dir_order, next |-> 1,
                         hours |-> hours, cutoff_time |-> now - hours * TicksPerHour,
                         deleted_count |-> 0, removed |-> {}]
            /\ UNCHANGED result
    /\ UNCHANGED <<appVars, parseVars, nameVars, dir_exists, writable, files, dir_order, scan, pc>>

\* A variant of the loop body that skips a file it cannot remove.
cleanup_file_skipping ==
    /\ sweep.pc = "loop"
    /\ sweep.next <= Len(sweep.snapshot)
    /\ LET name == sweep.snapshot[sweep.next]
       IN  IF endswith(name) /\ name \in DOMAIN files
              /\ files[name].mtime < sweep.cutoff_time /\ files[name].removable
           THEN /\ files' = Without(files, name)
                /\ dir_order' = Filter(dir_order, DOMAIN files \ {name})
                /\ sweep' = [sweep EXCEPT !.next = @ + 1, !.deleted_count = @ + 1,
                                          !.removed = @ \cup {[name |-> name, mtime |-> files[name].mtime]}]
           ELSE /\ sweep' = [sweep EXCEPT !.next = @ + 1]
                /\ UNCHANGED <<files, dir_order>>
    /\ UNCHANGED <<appVars, parseVars, nameVars, dir_exists, writable, result, scan, pc>>

\* A variant of the loop body that removes what is as old as the cutoff too.
cleanup_file_inclusive ==
    /\ sweep.pc = "loop"
    /\ sweep.next <= Len(sweep.snapshot)
    /\ LET name == sweep.snapshot[sweep.next]
       IN  IF endswith(name) /\ name \in DOMAIN files
              /\ files[name].mtime <= sweep.cutoff_time /\ files[name].removable
           THEN /\ files' = Without(files, name)
                /\ dir_order' = Filter(dir_order, DOMAIN files \ {name})
                /\ sweep' = [sweep EXCEPT !.next = @ + 1, !.deleted_count = @ + 1,
                                          !.removed = @ \cup {[name |-> name, mtime |-> files[name].mtime]}]
           ELSE /\ sweep' = [sweep EXCEPT !.next = @ + 1]
                /\ UNCHANGED <<files, dir_order>>
    /\ UNCHANGED <<appVars, parseVars, nameVars, dir_exists, writable, result, scan, pc>>

\* word_generator.py:276-284 for one entry of the listing; os.path.getmtime
\* raises for an entry that is gone, os.remove for one that cannot be
\* removed, and the handler at 288-290 returns 0.
cleanup_file ==
    /\ sweep.pc = "loop"
    /\ sweep.next <= Len(sweep.snapshot)
    /\ LET name == sweep.snapshot[sweep.next]
       IN  IF ~ endswith(name)
           THEN /\ sweep' = [sweep EXCEPT !.next = @ + 1]
                /\ UNCHANGED <<files, dir_order, result>>
           ELSE IF name \notin DOMAIN files
           THEN /\ result' = Outcome("cleanup_old_reports", "returned",
                                     "FileNotFoundError", 0, 0)
                /\ sweep' = [sweep EXCEPT !.pc = "idle"]
                /\ UNCHANGED <<files, dir_order>>
           ELSE IF ~ (files[name].mtime < sweep.cutoff_time)
           THEN /\ sweep' = [sweep EXCEPT !.next = @ + 1]
                /\ UNCHANGED <<files, dir_order, result>>
           ELSE IF ~ files[name].removable
           THEN /\ result' = Outcome("cleanup_old_reports", "returned", "OSError", 0, 0)
                /\ sweep' = [sweep EXCEPT !.pc = "idle"]
                /\ UNCHANGED <<files, dir_order>>
           ELSE /\ files' = Without(files, name)
                /\ dir_order' = Filter(dir_order, DOMAIN files \ {name})
                /\ sweep' = [sweep EXCEPT !.next = @ + 1, !.deleted_count = @ + 1,
                                          !.removed = @ \cup {[name |-> name, mtime |-> files[name].mtime]}]
                /\ UNCHANGED result
    /\ UNCHANGED <<appVars, parseVars, nameVars, dir_exists, writable, scan, pc>>

\* word_generator.py:286
cleanup_return ==
    /\ sweep.pc = "loop"
    /\ sweep.next > Len(sweep.snapshot)
    /\ result' = Outcome("cleanup_old_reports", "returned", "none", 0, sweep.deleted_count)
    /\ sweep' = [sweep EXCEPT !.pc = "idle"]
    /\ UNCHANGED <<appVars, parseVars, nameVars, dir_exists, writable, files, dir_order, scan, pc>>

InitStore ==
    /\ IdleApp
    /\ now = 0
    /\ dir_exists \in BOOLEAN
    /\ writable = TRUE
    /\ files \in IF dir_exists THEN StoreDirectories ELSE {<<>>}
    /\ dir_order \in Listings(DOMAIN files)
    /\ scan = IdleScan /\ sweep = IdleSweep
    /\ result = NoOutcome
    /\ analysis_text = <<>> /\ sections = <<>> /\ doc = <<>>
    /\ process_name = <<>> /\ filename = <<>> /\ calls = <<>>
    /\ pc = "serving"

\* One request is served at a time: a call begins when no other is running.
ListBegin == sweep.pc = "idle" /\ list_begin
ListFile == list_file
ListReturn == list_return
CleanupBegin == \E hours \in 0..MaxHours : scan.pc = "idle" /\ cleanup_begin(hours)
CleanupFile == cleanup_file
CleanupReturn == cleanup_return

NextStore ==
    \/ ListBegin \/ ListFile \/ ListReturn
    \/ CleanupBegin \/ CleanupFile \/ CleanupReturn
    \/ Tick

SpecStore == InitStore /\ [][NextStore]_vars

-----------------------------------------------------------------------------
(* Statements about the report store                                       *)

\* The entries that are reports: the name ends in '.docx'.
IsReport(name) == name # <<>> /\ name[Len(name)] = ".docx"

Reports(dir) == {name \in DOMAIN dir : IsReport(name)}

Filenames(value) == {value[i].filename : i \in 1..Len(value)}

\* C11: a call of list_generated_reports that is served alone returns one
\* descriptor for each entry of the directory whose name ends in '.docx',
\* none for any other entry, and the empty list when the directory is absent.
ListsEveryReportOnce ==
    [][ /\ list_return =>
              /\ Filenames(result'.value) = Reports(files)
              /\ Len(result'.value) = Cardinality(Reports(files))
        /\ (list_begin /\ ~ dir_exists) =>
              result' = Outcome("list_generated_reports", "returned", "none", 0, <<>>)
      ]_vars

\* A listing of one report was returned for a directory that also holds an
\* entry that is not a report.
ListsEveryReportOnceWitness ==
    /\ result.op = "list_generated_reports"
    /\ scan.pc = "idle" /\ sweep.pc = "idle"
    /\ Len(result.value) = 1
    /\ Filenames(result.value) = Reports(files)
    /\ Reports(files) # DOMAIN files

\* C12: in every list that list_generated_reports returns, a report that was
\* modified later than another one comes before it.
NewestFirst ==
    [][ list_return =>
            \A i, j \in 1..Len(result'.value) :
                files[result'.value[i].filename].mtime > files[result'.value[j].filename].mtime
                    => i < j
      ]_vars

current_time == sweep.cutoff_time + sweep.hours * TicksPerHour

\* The call of cleanup_old_reports ends with this step.
CleanupEnds == (cleanup_file \/ cleanup_return) /\ sweep'.pc = "idle"

CountIsRemoved ==
    [][ CleanupEnds => result'.value = Cardinality(sweep'.removed) ]_vars

\* The removal of the entry that the loop of cleanup_old_reports looks at
\* fails.
RemovalFails ==
    /\ sweep.pc = "loop"
    /\ sweep.next <= Len(sweep.snapshot)
    /\ LET name == sweep.snapshot[sweep.next]
       IN  /\ IsReport(name) /\ name \in DOMAIN files
           /\ files[name].mtime < sweep.cutoff_time
           /\ ~ files[name].removable

EmptyTextRejected ==
    [][ (GenerateWordReport /\ analysis_text' = <<>>) =>
            /\ result' = Outcome("generate_word_report", "returned",
                                 "No analysis text provided", 400, NoResult)
            /\ UNCHANGED <<dir_exists, files, dir_order>>
      ]_vars

\* A request without text was answered 400 over a directory that holds files.
EmptyTextRejectedWitness ==
    /\ result.op = "generate_word_report" /\ result.status = 400
    /\ analysis_text = <<>>
    /\ files # <<>>

-----------------------------------------------------------------------------
(* download_file                                                           *)

\* The names asked for: the entries a directory can hold, a name that no
\* directory holds, and names with characters that secure_filename takes out.
DownloadNames ==
    FileUniverse \cup {<<"missing", ".docx">>, <<"!">>, <<"old", "!", ".docx">>,
                       <<" ", "old", " ", ".docx">>}

\* The lexemes made of the characters A-Z a-z 0-9 _ . - only.
FilenameLexemes ==
    {"Process_Analysis_", "a", "_", "0", ".docx", "old", "notes", ".txt", "missing",
     "-", "."}

\* '_'.join(filename.split()): the words between runs of whitespace, put
\* together with one underscore between two of them.
join_split(s) ==
    Concat([i \in 1..Len(s) |->
               IF s[i] \in Whitespace THEN <<>>
               ELSE IF i > 1 /\ s[i - 1] \in Whitespace
                       /\ \E j \in 1..(i - 1) : s[j] \notin Whitespace
                    THEN <<"_", s[i]>>
                    ELSE <<s[i]>>])

\* str.strip('._'): leading and trailing dots and underscores go.
strip_chars(s) ==
    LET keep == {i \in 1..Len(s) : s[i] \notin {".", "_"}}
    IN  IF keep = {} THEN <<>>
        ELSE SubSeq(s, Min(keep), CHOOSE m \in keep : \A k \in keep : k <= m)

\* werkzeug.utils.secure_filename, called at app.py:585: whitespace becomes
\* '_', every character outside A-Z a-z 0-9 _ . - is dropped, dots and
\* underscores at both ends are stripped; the result can be empty.
secure_filename(requested) ==
    strip_chars(Filter(join_split(requested), FilenameLexemes))

\* GET /api/download/<filename>, app.py:572-603.  os.path.join with an empty
\* name gives the directory itself, which exists when the directory does;
\* send_file cannot open it, and the handler at 601-603 answers 500.
download_file(requested) ==
    /\ filename' = secure_filename(requested)
    /\ result' = IF filename' = <<>>
                 THEN (IF dir_exists
                       THEN Outcome("download_file", "returned", "IsADirectoryError",
                                    500, NoResult)
                       ELSE Outcome("download_file", "returned", "File not found",
                                    404, NoResult))
                 ELSE IF filename' \notin DOMAIN files
                 THEN Outcome("download_file", "returned", "File not found", 404, NoResult)
                 ELSE Outcome("download_file", "returned", "none", 200, filename')
    /\ UNCHANGED <<appVars, parseVars, process_name, now, calls, dir_exists, writable, files,
                   dir_order, scan, sweep, pc>>

DownloadFile == \E requested \in DownloadNames : download_file(requested)

NextDownload == DownloadFile

SpecDownload == InitStore /\ [][NextDownload]_vars

\* C17: a download request for a name that, once sanitised, names no entry
\* of the output directory is answered 404, and changes no file.
MissingFileNotFound ==
    [][ \A requested \in DownloadNames :
            (download_file(requested) /\ secure_filename(requested) \notin DOMAIN files)
                => (result'.status = 404 /\ UNCHANGED <<dir_exists, files, dir_order>>)
      ]_vars

-----------------------------------------------------------------------------
(* create_process_document: the five sections, word_generator.py:137-174   *)

\* word_generator.py:138-144
section_titles ==
    <<[title_text |-> "1. Control Objective", section_key |-> "Control Objective"],
      [title_text |-> "2. Risks Addressed", section_key |-> "Risks Addressed"],
      [title_text |-> "3. Testing Procedures", section_key |-> "Testing Procedures"],
      [title_text |-> "4. Test Results and Findings",
       section_key |-> "Test Results and Findings"],
      [title_text |-> "5. Conclusion and Recommendation",
       section_key |-> "Conclusion and Recommendation"]>>

Placeholder == "[No content provided for this section]"       \* line 172

\* doc.add_paragraph(text, style) and doc.add_heading(text, level=1): what is
\* appended to the body of the document.
add_paragraph(text, style) == [text |-> text, style |-> style]

\* What the content of a section is made of: a word, blanks, line breaks,
\* the two bullet marks and a numeral with its dot.  "(bullet)" stands for
\* the one character U+2022.
ContentLexemes == {"x", " ", "\n", "-", "(bullet)", "1."}
BulletMarks == {"-", "(bullet)"}
NumberMarks == {"1."}

\* Line 157: '\n-' in content or '\n(bullet)' in content or
\* re.search(r'\n\d+\.', content).
has_list(content) ==
    \E i \in 1..(Len(content) - 1) :
        content[i] = "\n" /\ content[i + 1] \in BulletMarks \cup NumberMarks

\* content.split('\n'), line 159
RECURSIVE split(_)
split(s) ==
    LET breaks == {i \in 1..Len(s) : s[i] = "\n"}
    IN  IF breaks = {} THEN <<s>>
        ELSE <<SubSeq(s, 1, Min(breaks) - 1)>> \o split(SubSeq(s, Min(breaks) + 1, Len(s)))

\* Leading whitespace goes: the \s* of re.sub(r'^\d+\.\s*', '', line).
lstrip(s) ==
    LET keep == {i \in 1..Len(s) : s[i] \notin Whitespace}
    IN  IF keep = {} THEN <<>> ELSE SubSeq(s, Min(keep), Len(s))

\* Lines 161-168: what one line of a content with list items adds.
render_line(raw) ==
    LET line == strip(raw)
    IN  IF line = <<>> THEN <<>>
        ELSE IF Head(line) \in BulletMarks
        THEN <<add_paragraph(strip(Tail(line)), "List Bullet")>>
        ELSE IF Head(line) \in NumberMarks
        THEN <<add_paragraph(lstrip(Tail(line)), "List Number")>>
        ELSE <<add_paragraph(line, "Normal")>>

\* Lines 157-170: what a content that is not empty adds.
render_content(content) ==
    IF has_list(content)
    THEN Concat([i \in 1..Len(split(content)) |-> render_line(split(content)[i])])
    ELSE <<add_paragraph(content, "Normal")>>

\* A variant of the loop body that leaves out a section without content.
render_section_if_content(secs, title) ==
    LET content == section_content(secs, title.section_key)
    IN  IF content = <<>> THEN <<>>
        ELSE <<add_paragraph(<<title.title_text>>, "Heading 1")>>
             \o render_content(content)
             \o <<add_paragraph(<<>>, "Normal")>>

\* Lines 146-174: the body of the loop for one section: the heading, the
\* content or the placeholder, and an empty paragraph.
render_section(secs, title) ==
    LET content == section_content(secs, title.section_key)
    IN  <<add_paragraph(<<title.title_text>>, "Heading 1")>>
        \o (IF content # <<>> THEN render_content(content)
            ELSE <<add_paragraph(<<Placeholder>>, "Intense Quote")>>)
        \o <<add_paragraph(<<>>, "Normal")>>

\* Lines 137-174: the loop over the five sections.
add_sections(secs) ==
    Concat([n \in 1..Len(section_titles) |-> render_section(secs, section_titles[n])])

\* The sections given to the loop: one of them holds an arbitrary content,
\* each of the others is empty or a word.
InitRender ==
    /\ IdleApp
    /\ \E varied \in SectionNames, content \in SeqsUpTo(ContentLexemes, MaxBody) :
          \E rest \in [SectionNames \ {varied} -> {<<>>, <<"x">>}] :
              sections = [key \in SectionNames |->
                             IF key = varied THEN content ELSE rest[key]]
    /\ analysis_text = <<>>
    /\ doc = <<>>
    /\ pc = "start"
    /\ IdleName /\ IdleStore

AddSections ==
    /\ pc = "start"
    /\ doc' = add_sections(sections)
    /\ pc' = "rendered"
    /\ UNCHANGED <<appVars, analysis_text, sections, nameVars, storeVars>>

NextRender == AddSections

SpecRender == InitRender /\ [][NextRender]_vars

\* The places of the section headings in the document, in order.
HeadingPlaces ==
    LET places == {i \in 1..Len(doc) : doc[i].style = "Heading 1"}
    IN  [n \in 1..Cardinality(places) |->
            CHOOSE i \in places : Cardinality({j \in places : j < i}) = n - 1]

-----------------------------------------------------------------------------
(* list_generated_reports and cleanup_old_reports served at the same time  *)

\* Two requests are served by two threads: the steps of the two calls
\* interleave in any order.
NextConcurrent ==
    \/ list_begin \/ list_file \/ list_return
    \/ (\E hours \in 0..MaxHours : cleanup_begin(hours))
    \/ cleanup_file \/ cleanup_return

SpecConcurrent == InitStore /\ [][NextConcurrent]_vars

\* The call of list_generated_reports ends with this step.
ListEnds == (list_file \/ list_return) /\ scan'.pc = "idle"

\* C19: a list that is returned while cleanup_old_reports runs holds a
\* descriptor for every report that was in the directory from the listing
\* of the directory to the end of the call, and beyond these only reports
\* that the listing of the directory gave.
ListingKeepsLastingReports ==
    [][ ListEnds =>
            LET listed == {scan.snapshot[i] : i \in 1..Len(scan.snapshot)}
            IN  /\ Reports(files) \cap listed \subseteq Filenames(result'.value)
                /\ Filenames(result'.value) \subseteq listed
      ]_vars

-----------------------------------------------------------------------------
(* Statements about the order and the ends of the markers                  *)

\* For a rule that matches: where its marker starts, where its capture
\* starts and the place at which its lookahead ends the capture.
capture_span(p, text) ==
    LET i0 == Min({i \in 1..Len(text) : MarkerEnd(p, text, i) # 0})
        b  == SkipWhile(text, MarkerEnd(p, text, i0), ColonOrSpace)
    IN  [start |-> i0, from |-> b,
         stop |-> Min({q \in b..(Len(text) + 1) : StopAt(p, text, q)})]

\* C21: for each rule n in 1..4, a capture that ends before the end of the
\* text ends at a marker that rule n+1 recognizes as its own, so that rule
\* n+1 matches and the text after that marker goes to section n+1.
NextMarkerEndsCapture ==
    pc = "parsed" =>
        \A n \in 1..4 :
            LET m == re_search(patterns[n], analysis_text)
                span == capture_span(patterns[n], analysis_text)
            IN  (m.matched /\ span.stop <= Len(analysis_text)) =>
                    /\ MarkerEnd(patterns[n + 1], analysis_text, span.stop) # 0
                    /\ re_search(patterns[n + 1], analysis_text).matched

\* C22: markers are matched in ascending order only: of two rules that both
\* match, the one with the higher number matches later in the text, so no
\* section receives text that stands before the match of an earlier rule.
AscendingMatchesOnly ==
    pc = "parsed" =>
        \A i, j \in 1..5 :
            (/\ i < j
             /\ re_search(patterns[i], analysis_text).matched
             /\ re_search(patterns[j], analysis_text).matched)
                => re_search(patterns[i], analysis_text).start
                       < re_search(patterns[j], analysis_text).start

-----------------------------------------------------------------------------
(* Statements about the rendering of a content                             *)

\* Some line of the content, the first one included, starts with a bullet
\* mark or with a numeral and a dot.
HasMarkedLine(content) ==
    \E i \in 1..Len(split(content)) :
        /\ split(content)[i] # <<>>
        /\ Head(split(content)[i]) \in BulletMarks \cup NumberMarks

-----------------------------------------------------------------------------
(* The filename of a subject name of two words                             *)

\* Two words with any characters that are neither letter nor digit between
\* them, as in 'Q3 Audit / Review'.
InitSeparated ==
    /\ IdleApp
    /\ \E sep \in SeqsUpTo(NameChars \ {"a", "3"}, MaxSepLen) :
          process_name = <<"a">> \o sep \o <<"3">>
    /\ now \in 0..MaxTime
    /\ filename = NoResult
    /\ calls = <<>>
    /\ pc = "start"
    /\ IdleParse /\ IdleStore

SpecSeparated == InitSeparated /\ [][NextSlug]_vars

\* The slug within the filename: what stands between the prefix and the
\* underscore before the timestamp.
SlugOf(name) == SubSeq(name, 2, Len(name) - 4)

-----------------------------------------------------------------------------
(* What cleanup_old_reports leaves alone                                   *)

\* C28: a call of cleanup_old_reports(hours) takes as cutoff its clock
\* reading less hours * 3600 seconds and removes only entries whose name
\* ends in '.docx' and that were modified strictly before it; every other
\* entry stays as it is, and without the directory the call returns 0 and
\* creates nothing.
RemovesOnlyOldReports ==
    [][ /\ \A hours \in 0..MaxHours :
               cleanup_begin(hours) =>
                   /\ dir_exists' = dir_exists /\ files' = files
                   /\ IF dir_exists
                      THEN sweep'.cutoff_time = now - hours * 3600 * TicksPerSecond
                      ELSE result' = Outcome("cleanup_old_reports", "returned", "none", 0, 0)
        /\ (cleanup_file \/ cleanup_return) =>
               /\ dir_exists' = dir_exists
               /\ \A name \in DOMAIN files \ DOMAIN files' :
                      IsReport(name) /\ files[name].mtime < sweep.cutoff_time
               /\ \A name \in DOMAIN files' :
                      name \in DOMAIN files /\ files'[name] = files[name]
      ]_vars

\* A call with an age limit of an hour or more has returned after removing
\* a report; an older entry that is no report and a report modified at the
\* cutoff or later are still there.
RemovesOnlyOldReportsWitness ==
    /\ result.op = "cleanup_old_reports" /\ result.error = "none"
    /\ result.value >= 1
    /\ sweep.pc = "idle" /\ sweep.hours >= 1
    /\ \E name \in DOMAIN files :
          ~ IsReport(name) /\ files[name].mtime < sweep.cutoff_time
    /\ \E name \in Reports(files) : files[name].mtime >= sweep.cutoff_time

-----------------------------------------------------------------------------
(* The system prompt: config.py, the prompt handlers of app.py and        *)
(* GeminiClient._build_prompt                                              *)

\* config.py:66-113: the texts of the templates, each one written as its
\* opening words.
SYSTEM_PROMPTS ==
    [default   |-> "You are a helpful AI assistant",
     technical |-> "You are a senior technical documentation expert",
     auditor   |-> "You are an experienced compliance auditor",
     developer |-> "You are an expert software developer",
     analyst   |-> "You are a business analyst",
     educator  |-> "You are an experienced technical educator"]

\* A variant that looks only at the template name.
get_system_prompt_by_template(config) ==
    IF config.SYSTEM_PROMPT_TEMPLATE \in DOMAIN SYSTEM_PROMPTS
    THEN SYSTEM_PROMPTS[config.SYSTEM_PROMPT_TEMPLATE]
    ELSE SYSTEM_PROMPTS["default"]

\* config.py:183-191
get_system_prompt(config) ==
    IF config.CUSTOM_SYSTEM_PROMPT # ""
    THEN config.CUSTOM_SYSTEM_PROMPT
    ELSE IF config.SYSTEM_PROMPT_TEMPLATE \in DOMAIN SYSTEM_PROMPTS
         THEN SYSTEM_PROMPTS[config.SYSTEM_PROMPT_TEMPLATE]
         ELSE SYSTEM_PROMPTS["default"]

\* Python's truth test of a value that is None (here NoResult) or a string.
truthy(value) == value # NoResult /\ value # ""

\* gemini_client.py:12-28: GeminiClient() gives a new object, or raises what
\* the library raised.  Objects are numbered in the order they are built.
GeminiClient(built) == IF built THEN gemini_client + 1 ELSE gemini_client

\* app.py:356-386, with the answer of each branch.  built tells whether the
\* constructor at line 375 returned.
update_prompt(data, built) ==
    LET template == get(data, "template", NoResult)
        custom_prompt == get(data, "custom_prompt", NoResult)
        assigned ==
            IF truthy(custom_prompt)
            THEN [Config EXCEPT !.CUSTOM_SYSTEM_PROMPT = custom_prompt,
                                !.SYSTEM_PROMPT_TEMPLATE = "custom"]
            ELSE [Config EXCEPT !.CUSTOM_SYSTEM_PROMPT = "",
                                !.SYSTEM_PROMPT_TEMPLATE = template]
    IN  /\ IF truthy(custom_prompt)
              \/ (truthy(template) /\ template \in DOMAIN SYSTEM_PROMPTS)
           THEN /\ Config' = assigned
                /\ gemini_client' = GeminiClient(built)
                /\ result' =
                      IF built
                      THEN Outcome("update_prompt", "returned", "none", 200,
                                   [current_prompt |-> get_system_prompt(assigned),
                                    template |-> assigned.SYSTEM_PROMPT_TEMPLATE])
                      ELSE Outcome("update_prompt", "returned", "Exception", 500, NoResult)
           ELSE /\ result' = Outcome("update_prompt", "returned",
                                     "Invalid template or prompt", 400, NoResult)
                /\ UNCHANGED <<Config, gemini_client>>
        /\ UNCHANGED <<parseVars, nameVars, dir_exists, writable, files, dir_order,
                       scan, sweep, github_client, upload_folder, requests, pc>>

\* app.py:391-409
reset_prompt(built) ==
    LET assigned == [Config EXCEPT !.CUSTOM_SYSTEM_PROMPT = "",
                                   !.SYSTEM_PROMPT_TEMPLATE = "default"]
    IN  /\ Config' = assigned
        /\ gemini_client' = GeminiClient(built)
        /\ result' =
              IF built
              THEN Outcome("reset_prompt", "returned", "none", 200,
                           [current_prompt |-> get_system_prompt(assigned),
                            template |-> assigned.SYSTEM_PROMPT_TEMPLATE])
              ELSE Outcome("reset_prompt", "returned", "Exception", 500, NoResult)
        /\ UNCHANGED <<parseVars, nameVars, dir_exists, writable, files, dir_order,
                       scan, sweep, github_client, upload_folder, requests, pc>>

\* A chat query is a sequence of words; three of them are keywords of
\* _detect_query_type.
QueryWords == {"audit", "model", "pipeline", "hello"}
Queries == SeqsUpTo(QueryWords, MaxQueryLen)

\* gemini_client.py:167-199
detect_query_type(query) ==
    LET words == {query[i] : i \in 1..Len(query)}
    IN  IF "audit" \in words THEN "sox_audit"
        ELSE IF "model" \in words THEN "mlops_workflow"
        ELSE IF "pipeline" \in words THEN "devops_pipeline"
        ELSE "generic"

\* gemini_client.py:64-147: the parts of the prompt in the order they are
\* appended; the string returned joins them with line breaks, so it starts
\* with the first part.
build_prompt(user_query, rag_context, github_data) ==
    LET query_type == detect_query_type(user_query)
    IN  <<"You are a helpful AI assistant">>
        \o (IF query_type = "sox_audit" THEN <<"SOX Control Analysis Structure">>
            ELSE IF query_type = "mlops_workflow" THEN <<"MLOps Workflow Analysis Structure">>
            ELSE IF query_type = "devops_pipeline" THEN <<"DevOps Pipeline Analysis Structure">>
            ELSE <<>>)
        \o (IF rag_context THEN <<"=== REFERENCE DOCUMENTS ===">> ELSE <<>>)
        \o (IF github_data THEN <<"=== GITHUB REPOSITORY DATA ===">> ELSE <<>>)
        \o <<"=== USER QUESTION ===", user_query, "Please provide a helpful and accurate response">>

\* gemini_client.py:30-62: the prompt handed to the model.
generate_response(user_query, rag_context, github_data) ==
    /\ result' = Outcome("generate_response", "returned", "none", 0,
                         build_prompt(user_query, rag_context, github_data))
    /\ UNCHANGED <<appVars, parseVars, nameVars, dir_exists, writable, files, dir_order,
                   scan, sweep, pc>>

\* The bodies of the update requests: JSON objects in which each of the two
\* keys may be missing.
TemplateNames == {"default", "auditor", "custom", "nosuch", ""}
CustomPrompts == {"", "Answer briefly", "Answer in French"}
PromptBodies ==
    {<<>>} \cup {[template |-> t] : t \in TemplateNames}
           \cup {[custom_prompt |-> c] : c \in CustomPrompts}
           \cup {[template |-> t, custom_prompt |-> c] :
                     t \in TemplateNames, c \in CustomPrompts}

\* The process after start-up: the two prompt attributes are what the
\* environment gave (config.py:50-51), which may name no template.
InitPrompts ==
    /\ Config \in {[DefaultConfig EXCEPT !.SYSTEM_PROMPT_TEMPLATE = t,
                                         !.CUSTOM_SYSTEM_PROMPT = c] :
                       t \in TemplateNames, c \in {"", "Answer briefly"}}
    /\ gemini_client = 0 /\ github_client = NoGitHub
    /\ upload_folder = {} /\ requests = <<>>
    /\ pc = "serving"
    /\ IdleParse /\ IdleName /\ IdleStore

UpdatePrompt ==
    /\ gemini_client < MaxClients
    /\ \E data \in PromptBodies, built \in BOOLEAN : update_prompt(data, built)

ResetPrompt ==
    /\ gemini_client < MaxClients
    /\ \E built \in BOOLEAN : reset_prompt(built)

GenerateResponse ==
    \E user_query \in Queries, rag_context \in BOOLEAN, github_data \in BOOLEAN :
        generate_response(user_query, rag_context, github_data)

NextPrompts == UpdatePrompt \/ ResetPrompt \/ GenerateResponse

SpecPrompts == InitPrompts /\ [][NextPrompts]_vars

\* C25: once an update or a reset of the system prompt has succeeded, every
\* prompt that generate_response builds starts with the system prompt that
\* is active then, the value of Config.get_system_prompt().
PromptStartsWithActive ==
    (result.op = "generate_response" /\ gemini_client >= 1)
        => Head(result.value) = get_system_prompt(Config)

-----------------------------------------------------------------------------
(* /api/generate-word-report served by several threads: app.py:498-569,   *)
(* statement by statement                                                  *)

\* app.py:524-536: the session keys looked up, in the order of the four if
\* statements, each with the attribute of Config it overrides.
overrides ==
    <<[key |-> "project_name", attribute |-> "PROJECT_NAME"],
      [key |-> "company_name", attribute |-> "COMPANY_NAME"],
      [key |-> "brand_color",  attribute |-> "BRAND_COLOR"],
      [key |-> "logo_path",    attribute |-> "DOCUMENT_LOGO_PATH"]>>

BrandingAttributes == {overrides[i].attribute : i \in DOMAIN overrides}

\* app.py:435-464: what update_doc_config stores in a session; a session
\* without a stored configuration has none of the keys.
session_configs ==
    <<[project_name |-> "Acme Audit", company_name |-> "Acme",
       brand_color |-> "#FF0000", logo_path |-> "acme.png"],
      [project_name |-> "Bolt Review", company_name |-> "Bolt",
       brand_color |-> "#00FF00", logo_path |-> "bolt.png"],
      [project_name |-> "Cask Report", company_name |-> "Cask",
       brand_color |-> "#0000FF", logo_path |-> "cask.png"]>>

\* The locals of a request that has not started.
NewRequest(session) ==
    [pc |-> "idle", session |-> session, original_config |-> <<>>, next |-> 1,
     status |-> 0]

\* What changes in the request r only.
Serve(r, request) == requests' = [requests EXCEPT ![r] = request]

RequestFrame ==
    UNCHANGED <<parseVars, nameVars, dir_exists, writable, files, dir_order, scan,
                sweep, gemini_client, github_client, upload_folder, pc>>

\* app.py:510-524: the body is read; an empty analysis text is answered 400,
\* otherwise original_config starts empty.
generate_word_report_begin(r, text) ==
    /\ requests[r].pc = "idle"
    /\ IF text = <<>>
       THEN /\ Serve(r, [requests[r] EXCEPT !.pc = "returned", !.status = 400])
            /\ result' = Outcome("generate_word_report", "returned",
                                 "No analysis text provided", 400, NoResult)
       ELSE /\ Serve(r, [requests[r] EXCEPT !.pc = "test", !.next = 1,
                                            !.original_config = <<>>])
            /\ UNCHANGED result
    /\ UNCHANGED Config
    /\ RequestFrame

\* After the if statement numbered next: the following one, or line 539.
AfterOverride(request) ==
    IF request.next = Len(overrides)
    THEN [request EXCEPT !.pc = "create"]
    ELSE [request EXCEPT !.pc = "test", !.next = @ + 1]

\* app.py:525-526, 528-529, 531-532, 534-535: the test of an if statement
\* and, when the session has the key, the statement that saves the present
\* value of the attribute in original_config.
generate_word_report_save(r) ==
    LET request == requests[r]
        override == overrides[request.next]
    IN  /\ request.pc = "test"
        /\ IF override.key \in DOMAIN request.session
           THEN Serve(r, [request EXCEPT
                    !.pc = "assign",
                    !.original_config =
                        Append(@, [attribute |-> override.attribute,
                                   value |-> Config[override.attribute]])])
           ELSE Serve(r, AfterOverride(request))
        /\ UNCHANGED <<Config, result>>
        /\ RequestFrame

\* app.py:527, 530, 533, 536: the attribute gets the value of the session.
generate_word_report_assign(r) ==
    LET request == requests[r]
        override == overrides[request.next]
    IN  /\ request.pc = "assign"
        /\ Config' = [Config EXCEPT ![override.attribute] = request.session[override.key]]
        /\ Serve(r, AfterOverride(request))
        /\ UNCHANGED result
        /\ RequestFrame

\* app.py:544-551: the call of create_process_document with the keyword
\* template_type, which the function does not accept (word_generator.py:59):
\* TypeError, and control passes to the finally clause.
generate_word_report_create(r) ==
    /\ requests[r].pc = "create"
    /\ Serve(r, [requests[r] EXCEPT !.pc = "restore", !.next = 1, !.status = 500])
    /\ UNCHANGED <<Config, result>>
    /\ RequestFrame

\* app.py:562-564: one round of the loop over original_config.items(), in
\* the order of insertion.
generate_word_report_restore(r) ==
    LET request == requests[r]
    IN  /\ request.pc = "restore"
        /\ request.next <= Len(request.original_config)
        /\ Config' = [Config EXCEPT ![request.original_config[request.next].attribute] =
                                        request.original_config[request.next].value]
        /\ Serve(r, [request EXCEPT !.next = @ + 1])
        /\ UNCHANGED result
        /\ RequestFrame

\* app.py:567-569: the loop is over, the TypeError reaches the handler's
\* except clause and the request is answered 500.
generate_word_report_return(r) ==
    LET request == requests[r]
    IN  /\ request.pc = "restore"
        /\ request.next > Len(request.original_config)
        /\ Serve(r, [request EXCEPT !.pc = "returned"])
        /\ result' = Outcome("generate_word_report", "returned", "TypeError",
                             request.status, NoResult)
        /\ UNCHANGED Config
        /\ RequestFrame

\* Every request comes from a session of its own, with or without a stored
\* document configuration.
InitRequests ==
    /\ Config = DefaultConfig
    /\ \E stored \in [1..MaxRequests -> BOOLEAN] :
          requests = [r \in 1..MaxRequests |->
                         NewRequest(IF stored[r] THEN session_configs[r] ELSE <<>>)]
    /\ gemini_client = 0 /\ github_client = NoGitHub /\ upload_folder = {}
    /\ pc = "serving"
    /\ IdleParse /\ IdleName /\ IdleStore

ReportBegin == \E r \in DOMAIN requests, text \in {<<>>, <<"x">>} :
                   generate_word_report_begin(r, text)
ReportSave == \E r \in DOMAIN requests : generate_word_report_save(r)
ReportAssign == \E r \in DOMAIN requests : generate_word_report_assign(r)
ReportCreate == \E r \in DOMAIN requests : generate_word_report_create(r)
ReportRestore == \E r \in DOMAIN requests : generate_word_report_restore(r)
ReportReturn == \E r \in DOMAIN requests : generate_word_report_return(r)

NextRequests ==
    \/ ReportBegin \/ ReportSave \/ ReportAssign
    \/ ReportCreate \/ ReportRestore \/ ReportReturn

SpecRequests == InitRequests /\ [][NextRequests]_vars

InProgress(r) == requests[r].pc \notin {"idle", "returned"}

\* C26: whenever no report request is in progress, the four branding
\* attributes of Config have the values they had before any request started,
\* however the statements of concurrent requests are interleaved.
BrandingRestoredWhenQuiet ==
    (\A r \in DOMAIN requests : ~ InProgress(r))
        => \A attribute \in BrandingAttributes :
               Config[attribute] = DefaultConfig[attribute]

-----------------------------------------------------------------------------
(* GitHubClient: github_client.py:12-75 and 298-300                        *)

\* A URL is a sequence of characters: two that stand for the characters of
\* names, and the slash.
UrlChars == {"o", "r", "/"}
Urls == SeqsUpTo(UrlChars, MaxUrlLen)

\* The full names of the repositories that the token can read.
Repositories == {<<"o", "/", "r">>, <<"r", "/", "o">>}

\* str.rstrip('/'), github_client.py:46
rstrip(s) ==
    LET keep == {i \in 1..Len(s) : s[i] # "/"}
    IN  IF keep = {} THEN <<>>
        ELSE SubSeq(s, 1, CHOOSE m \in keep : \A k \in keep : k <= m)

\* str.split('/'), github_client.py:46
RECURSIVE split_parts(_)
split_parts(s) ==
    LET slashes == {i \in 1..Len(s) : s[i] = "/"}
    IN  IF slashes = {} THEN <<s>>
        ELSE <<SubSeq(s, 1, Min(slashes) - 1)>>
                 \o split_parts(SubSeq(s, Min(slashes) + 1, Len(s)))

\* github_client.py:46-50: f"{owner}/{repo_name}" from the last two parts;
\* with fewer than two parts parts[-2] raises IndexError (written NoRepo).
full_name(repo_url) ==
    LET parts == split_parts(rstrip(repo_url))
    IN  IF Len(parts) < 2 THEN NoRepo
        ELSE parts[Len(parts) - 1] \o <<"/">> \o parts[Len(parts)]

\* github_client.py:37-57: the repository that _connect_repository assigns to
\* self.repo, or raised: the URL has no two parts, self.github is None, the
\* API does not answer (reachable is false) or knows no such repository.
\* Whatever is raised is raised before the assignment at line 51 is made.
connect_repository(client, repo_url, reachable) ==
    LET name == full_name(repo_url)
    IN  IF name # NoRepo /\ client.github # NoResult /\ reachable
           /\ name \in Repositories
        THEN [raised |-> FALSE, repo |-> name]
        ELSE [raised |-> TRUE, repo |-> client.repo]

\* github_client.py:298-300
is_connected(client) == client.github # NoResult /\ client.repo # NoRepo

\* A variant that notes the URL before it connects.
connect_to_repo_noting_first(repo_url, reachable) ==
    LET connected == connect_repository(github_client, repo_url, reachable)
    IN  /\ github_client' = [github_client EXCEPT !.repo = connected.repo,
                                                  !.repo_url = repo_url]
        /\ result' = Outcome("connect_to_repo", "returned", "none", 0, ~ connected.raised)
        /\ UNCHANGED <<parseVars, nameVars, dir_exists, writable, files, dir_order,
                       scan, sweep, Config, gemini_client, upload_folder, requests, pc>>

\* github_client.py:59-75
connect_to_repo(repo_url, reachable) ==
    LET connected == connect_repository(github_client, repo_url, reachable)
    IN  /\ IF connected.raised
           THEN /\ UNCHANGED github_client
                /\ result' = Outcome("connect_to_repo", "returned", "none", 0, FALSE)
           ELSE /\ github_client' = [github_client EXCEPT !.repo = connected.repo,
                                                          !.repo_url = repo_url]
                /\ result' = Outcome("connect_to_repo", "returned", "none", 0, TRUE)
        /\ UNCHANGED <<parseVars, nameVars, dir_exists, writable, files, dir_order,
                       scan, sweep, Config, gemini_client, upload_folder, requests, pc>>

\* github_client.py:12-35: the clients that __init__ can leave behind.  With
\* a token and a configured URL the repository of that URL is connected
\* (otherwise __init__ raises and the application does not start).
InitGitHub ==
    /\ \/ \E url \in Urls : github_client = [NoGitHub EXCEPT !.repo_url = url]
       \/ github_client = [NoGitHub EXCEPT !.github = "Github"]
       \/ \E url \in Urls :
             /\ full_name(url) \in Repositories
             /\ github_client = [github |-> "Github", repo |-> full_name(url),
                                 repo_url |-> url]
    /\ Config = DefaultConfig /\ gemini_client = 0
    /\ upload_folder = {} /\ requests = <<>>
    /\ pc = "serving"
    /\ IdleParse /\ IdleName /\ IdleStore

ConnectToRepo ==
    \E repo_url \in Urls, reachable \in BOOLEAN : connect_to_repo(repo_url, reachable)

\* A caller asks is_connected().
IsConnected ==
    /\ result' = Outcome("is_connected", "returned", "none", 0, is_connected(github_client))
    /\ UNCHANGED <<appVars, parseVars, nameVars, dir_exists, writable, files, dir_order,
                   scan, sweep, pc>>

NextGitHub == ConnectToRepo \/ IsConnected

SpecGitHub == InitGitHub /\ [][NextGitHub]_vars

\* C29: a call of connect_to_repo that fails returns False and leaves
\* self.repo, self.repo_url and the answer of is_connected() as they were; a
\* call that succeeds returns True, and self.repo is the repository that the
\* URL names and self.repo_url is that URL.
ConnectAllOrNothing ==
    [][ \A repo_url \in Urls :
            (/\ result'.op = "connect_to_repo"
             /\ \E reachable \in BOOLEAN : connect_to_repo(repo_url, reachable))
                => IF result'.value
                   THEN /\ LET parts == split_parts(rstrip(repo_url))
                           IN  /\ Len(parts) >= 2
                               /\ github_client'.repo =
                                      parts[Len(parts) - 1] \o <<"/">> \o parts[Len(parts)]
                        /\ github_client'.repo \in Repositories
                        /\ github_client'.repo_url = repo_url
                        /\ is_connected(github_client')
                   ELSE /\ github_client'.repo = github_client.repo
                        /\ github_client'.repo_url = github_client.repo_url
                        /\ is_connected(github_client') = is_connected(github_client)
      ]_vars

\* A client connected to one repository was asked to connect to a URL that
\* names another one; the call returned False and the first repository is
\* still the connected one.
ConnectAllOrNothingWitness ==
    /\ result.op = "connect_to_repo" /\ result.value = FALSE
    /\ is_connected(github_client)
    /\ github_client.repo = <<"o", "/", "r">>
    /\ github_client.repo_url = <<"o", "/", "r">>

-----------------------------------------------------------------------------
(* /api/upload: app.py:107-150                                             *)

\* The names a client gives to the file it sends: none, names without an
\* accepted extension, accepted names, and accepted names with characters
\* that secure_filename takes out or replaces.
UploadNames ==
    {<<>>, <<"notes">>, <<"notes", ".">>, <<"notes", ".txt">>, <<"a", ".txt">>,
     <<"old", ".docx">>, <<"old", "!", ".docx">>, <<" ", "notes", " ", ".txt">>}

\* config.py:204-209 with ALLOWED_EXTENSIONS of line 32: the name has a dot
\* and what follows the last dot is txt, pdf or docx in any case.  The
\* lexemes ".txt" and ".docx" are a dot with such an extension.
allowed_file(name) == name # <<>> /\ name[Len(name)] \in {".txt", ".docx"}

\* app.py:110-150, the whole handler.  has_file: the request has the part
\* 'file'; indexed: rag_engine.add_document returned chunks_added, otherwise
\* it raised.
upload_document(has_file, name, indexed, chunks_added) ==
    LET saved == secure_filename(name)
    IN  /\ IF ~ has_file
           THEN /\ result' = Outcome("upload_document", "returned", "No file provided",
                                     400, NoResult)
                /\ UNCHANGED upload_folder
           ELSE IF name = <<>>
           THEN /\ result' = Outcome("upload_document", "returned", "No file selected",
                                     400, NoResult)
                /\ UNCHANGED upload_folder
           ELSE IF ~ allowed_file(name)
           THEN /\ result' = Outcome("upload_document", "returned",
                                     "File type not allowed", 400, NoResult)
                /\ UNCHANGED upload_folder
           ELSE IF indexed
           THEN /\ upload_folder' = upload_folder \ {saved}
                /\ result' = Outcome("upload_document", "returned", "none", 200,
                                     [filename |-> saved, chunks_added |-> chunks_added])
           ELSE /\ upload_folder' = upload_folder \cup {saved}
                /\ result' = Outcome("upload_document", "returned", "Exception", 500,
                                     NoResult)
        /\ UNCHANGED <<parseVars, nameVars, dir_exists, writable, files, dir_order,
                       scan, sweep, Config, gemini_client, github_client, requests, pc>>

\* config.py:175: the upload folder exists at start; it holds nothing yet.
InitUpload ==
    /\ upload_folder = {}
    /\ Config = DefaultConfig /\ gemini_client = 0 /\ github_client = NoGitHub
    /\ requests = <<>>
    /\ pc = "serving"
    /\ IdleParse /\ IdleName /\ IdleStore

UploadDocument ==
    \E has_file \in BOOLEAN, name \in UploadNames, indexed \in BOOLEAN,
       chunks_added \in 0..MaxAdded :
        upload_document(has_file, name, indexed, chunks_added)

NextUpload == UploadDocument

SpecUpload == InitUpload /\ [][NextUpload]_vars

\* C30: when an upload request that saved its file has returned, the file it
\* saved under the upload folder is there no more, whether the indexing
\* returned or raised.
UploadedFileRemoved ==
    [][ \A name \in UploadNames :
            (/\ result'.op = "upload_document"
             /\ allowed_file(name)
             /\ \E indexed \in BOOLEAN, chunks_added \in 0..MaxAdded :
                    upload_document(TRUE, name, indexed, chunks_added))
                => secure_filename(name) \notin upload_folder'
      ]_vars

====
